---- MODULE Spec2Model ----
(***************************************************************************)
(* Model of the cipher access resolver, the folder assignment, the         *)
(* cascading cipher delete (src/src/db/models/cipher.rs) and the event     *)
(* recorder (src/src/api/core/events.rs, src/src/db/models/event.rs).      *)
(*                                                                         *)
(* The store is a set of tables; every table is a set of rows.  A nullable *)
(* text column holds NULL when unset; the integer columns of a row that a  *)
(* LEFT JOIN could not match hold NULLI.  SQL conditions are evaluated in  *)
(* three-valued logic ("T", "F", "N") and a row passes a filter or a join  *)
(* condition only when the condition is "T".                               *)
(***************************************************************************)
EXTENDS Integers, Sequences, FiniteSets, TLC

\* ------------------------------------------------------------------ bounds
MaxCiphers == 1
MaxMemberships == 1
MaxAssignments == 2
MaxLinks == 2
MaxAttachments == 1
MaxEvents == 3
MaxBatch == 3

\* ---------------------------------------------------------------- universe
NULL == "NULL"
NULLI == -1

Users == {"u1", "u2"}
Orgs == {"o1", "o2"}
CipherNames == <<"c1", "c2", "c3", "c4">>
EventNames == <<"e1", "e2", "e3", "e4", "e5">>
AttachmentNames == <<"a1", "a2", "a3">>

\* Uuid::new_v4(): the n-th uuid handed out; never repeats.
CipherUuid(n) == CipherNames[n]
EventUuid(n) == EventNames[n]

\* UserOrgType, as used by `UserOrgType::Admin as i32` and `type_.le(..)`.
OwnerType == 0
AdminType == 1
UserType == 2
UserOrgTypes == {OwnerType, AdminType, UserType}

\* collections and folders rows (tables this model never writes).
CollectionTable ==
    { [uuid |-> "k1", org_uuid |-> "o1"], [uuid |-> "k2", org_uuid |-> "o2"] }
FolderTable ==
    { [uuid |-> "f1", user_uuid |-> "u1"], [uuid |-> "f2", user_uuid |-> "u1"],
      [uuid |-> "g1", user_uuid |-> "u2"] }
CollectionIds == { k.uuid : k \in CollectionTable }
FolderIds == { f.uuid : f \in FolderTable }

VARIABLES
    ciphers,              \* table ciphers: rows [uuid, user_uuid, organization_uuid]
    nextCipher,           \* number of the next fresh cipher uuid
    draft,                \* a Cipher value a caller holds between new() and save()
    users_organizations,  \* rows [user_uuid, org_uuid, access_all, type_]
    users_collections,    \* rows [user_uuid, collection_uuid]
    ciphers_collections,  \* rows [cipher_uuid, collection_uuid]
    folders_ciphers,      \* rows [folder_uuid, cipher_uuid]
    attachments,          \* rows [id, cipher_uuid]
    events,               \* table event
    nextEvent,            \* number of the next fresh event uuid
    mv,                   \* the move_to_folder call in flight
    del,                  \* the Cipher::delete call in flight
    col,                  \* the post_events_collect request in flight
    resp                  \* the answer of the last read-only query

cipherVars == <<ciphers, nextCipher, draft>>
accessVars == <<users_organizations, users_collections>>
linkVars == <<ciphers_collections, folders_ciphers, attachments>>
eventVars == <<events, nextEvent>>
procVars == <<mv, del, col, resp>>
vars == <<ciphers, nextCipher, draft, users_organizations, users_collections,
          ciphers_collections, folders_ciphers, attachments, events, nextEvent,
          mv, del, col, resp>>

\* ------------------------------------------------------- three-valued logic
Eq3(a, b) == IF a = NULL \/ b = NULL THEN "N" ELSE IF a = b THEN "T" ELSE "F"
EqI3(a, b) == IF a = NULLI \/ b = NULLI THEN "N" ELSE IF a = b THEN "T" ELSE "F"
Le3(a, b) == IF a = NULLI \/ b = NULLI THEN "N" ELSE IF a <= b THEN "T" ELSE "F"
Or3(a, b) ==
    IF a = "T" \/ b = "T" THEN "T" ELSE IF a = "F" /\ b = "F" THEN "F" ELSE "N"
And3(a, b) ==
    IF a = "F" \/ b = "F" THEN "F" ELSE IF a = "T" /\ b = "T" THEN "T" ELSE "N"

\* The rows a LEFT JOIN pairs with one left row: the matches, or one all-NULL row.
LeftJoin(matches, nullRow) == IF matches = {} THEN {nullRow} ELSE matches

NullUserOrg ==
    [user_uuid |-> NULL, org_uuid |-> NULL, access_all |-> NULLI, type_ |-> NULLI]
NullCollectionCipher == [cipher_uuid |-> NULL, collection_uuid |-> NULL]
NullCollectionUser == [user_uuid |-> NULL, collection_uuid |-> NULL]

\* ------------------------------------------------------------------ Cipher
NoCipher == [uuid |-> NULL, user_uuid |-> NULL, organization_uuid |-> NULL]

\* Cipher::new: a fresh uuid, no owner of either kind.
Cipher_new(n) ==
    [uuid |-> CipherUuid(n), user_uuid |-> NULL, organization_uuid |-> NULL]

\* diesel::replace_into(ciphers::table): the row with this primary key is replaced.
CipherReplaceInto(table, row) == { r \in table : r.uuid # row.uuid } \cup {row}

\* Cipher::find_by_uuid: the row, or NoCipher for None.
find_by_uuid(uuid) ==
    IF \E r \in ciphers : r.uuid = uuid
    THEN CHOOSE r \in ciphers : r.uuid = uuid
    ELSE NoCipher

\* ----------------------------------------------------------- access resolver
\* Faulty variant: Owner and Admin memberships are let through as well.
WriteAccessOwnerAdminToo(self, user_uuid) ==
    IF self.user_uuid # NULL
    THEN self.user_uuid = user_uuid
    ELSE IF self.organization_uuid # NULL
         THEN \E uo \in users_organizations :
                  /\ uo.org_uuid = self.organization_uuid
                  /\ uo.user_uuid = user_uuid
                  /\ (uo.access_all = 1 \/ uo.type_ <= AdminType)
         ELSE FALSE

\* Faulty variant: the organization is looked at before the personal owner.
WriteAccessOrgFirst(self, user_uuid) ==
    IF self.organization_uuid # NULL
    THEN \E uo \in users_organizations :
             /\ uo.org_uuid = self.organization_uuid
             /\ uo.user_uuid = user_uuid
             /\ uo.access_all = 1
    ELSE self.user_uuid = user_uuid

\* Cipher::is_write_accessible_to_user: the owner for a personal cipher; for an
\* organization cipher a users_organizations row of (org, user) with access_all.
is_write_accessible_to_user(self, user_uuid) ==
    IF self.user_uuid # NULL
    THEN self.user_uuid = user_uuid
    ELSE IF self.organization_uuid # NULL
         THEN \E uo \in users_organizations :
                  /\ uo.org_uuid = self.organization_uuid
                  /\ uo.user_uuid = user_uuid
                  /\ uo.access_all = 1
         ELSE FALSE

\* The joined rows of find_by_user, before the filter: ciphers LEFT JOIN
\* users_organizations LEFT JOIN ciphers_collections LEFT JOIN users_collections.
FindByUserJoin(user_uuid) ==
    UNION { UNION { UNION {
        { [c |-> c, uo |-> uo, cc |-> cc, uc |-> uc] :
            uc \in LeftJoin({ x \in users_collections :
                                Eq3(cc.collection_uuid, x.collection_uuid) = "T" },
                            NullCollectionUser) } :
        cc \in LeftJoin({ x \in ciphers_collections :
                            Eq3(x.cipher_uuid, c.uuid) = "T" },
                        NullCollectionCipher) } :
        uo \in LeftJoin({ x \in users_organizations :
                            And3(Eq3(c.organization_uuid, x.org_uuid),
                                 Eq3(x.user_uuid, user_uuid)) = "T" },
                        NullUserOrg) } :
        c \in ciphers }

\* The filter of find_by_user on one joined row.
FindByUserFilter(r, user_uuid) ==
    Or3(Eq3(r.c.user_uuid, user_uuid),
        Or3(EqI3(r.uo.access_all, 1),
            Or3(Le3(r.uo.type_, AdminType),
                Eq3(r.uc.user_uuid, user_uuid))))

\* Cipher::find_by_user: select ciphers::all_columns, distinct.
find_by_user(user_uuid) ==
    { r.c : r \in { j \in FindByUserJoin(user_uuid) :
                      FindByUserFilter(j, user_uuid) = "T" } }

\* The rows the filtered join yields for the select, as a bag: each cipher row
\* once per joined row that passes the filter.
FindByUserSelect(user_uuid) ==
    [ c \in find_by_user(user_uuid) |->
        Cardinality({ j \in FindByUserJoin(user_uuid) :
                        j.c = c /\ FindByUserFilter(j, user_uuid) = "T" }) ]

\* Faulty variant: no DISTINCT.
KeepDuplicates(bag) == bag

\* .distinct(): every selected row once.
Distinct(bag) == [ x \in DOMAIN bag |-> 1 ]

\* Cipher::find_by_user, the Vec<Cipher> it loads, as a bag.
find_by_user_vec(user_uuid) == Distinct(FindByUserSelect(user_uuid))

\* The joined rows of get_collections: ciphers_collections INNER JOIN collections
\* INNER JOIN users_organizations (on the collection's organization and the
\* user) LEFT JOIN users_collections (on the collection).
GetCollectionsJoin(user_id) ==
    UNION { UNION { UNION {
        { [cc |-> cc, k |-> k, uo |-> uo, uc |-> uc] :
            uc \in LeftJoin({ x \in users_collections :
                                Eq3(x.collection_uuid, cc.collection_uuid) = "T" },
                            NullCollectionUser) } :
        uo \in { x \in users_organizations :
                    And3(Eq3(x.org_uuid, k.org_uuid),
                         Eq3(x.user_uuid, user_id)) = "T" } } :
        k \in { x \in CollectionTable :
                   Eq3(x.uuid, cc.collection_uuid) = "T" } } :
        cc \in ciphers_collections }

\* The two filters of get_collections on one joined row.
GetCollectionsFilter(r, self, user_id) ==
    And3(Eq3(r.cc.cipher_uuid, self.uuid),
         Or3(Eq3(r.uc.user_uuid, user_id),
             Or3(EqI3(r.uo.access_all, 1),
                 Le3(r.uo.type_, AdminType))))

\* select(ciphers_collections::collection_uuid) over the filtered join, as a
\* bag: each collection id once per joined row that passes the filters.
GetCollectionsSelect(self, user_id) ==
    LET passed == { j \in GetCollectionsJoin(user_id) :
                      GetCollectionsFilter(j, self, user_id) = "T" }
    IN [ id \in { j.cc.collection_uuid : j \in passed } |->
           Cardinality({ j \in passed : j.cc.collection_uuid = id }) ]

\* Cipher::get_collections, the Vec<String> it returns, as a bag; the empty Vec
\* when the load fails (unwrap_or(vec![])).
get_collections(self, user_id, ok) ==
    IF ok THEN GetCollectionsSelect(self, user_id) ELSE <<>>

\* ------------------------------------------------------------------- state
Procs == {1, 2}

\* pre and had are history fields: the folder links when the call started, and
\* whether the cipher had a folder link, a collection link and an attachment then.
\* found and wrote are history fields too: what find_by_folder_and_cipher gave
\* ("some" or "none"), and the link rows the call has removed or created.
IdleMove == [pc |-> "idle", cipher |-> NULL, user |-> NULL, target |-> NULL,
             cur |-> NULL, res |-> NULL, pre |-> {}, found |-> NULL, wrote |-> {}]
\* snap is a history field: the cipher's row and dependent rows at the start.
IdleDelete == [pc |-> "idle", cipher |-> NULL, res |-> NULL, had |-> FALSE,
               snap |-> <<>>]
\* log is a history field: what became of each item processed so far (the uuid
\* of the event saved for it, "skipped", "failed" or "panic").
\* before is a history field as well: the event rows when the request started.
IdleCollect == [pc |-> "idle", items |-> <<>>, idx |-> 0, user |-> NULL,
                log |-> <<>>, res |-> NULL, before |-> {}]
\* rows is the answer of a query that returns a Vec, as a bag (row -> copies).
NoResp == [op |-> "none", user |-> NULL, cipher |-> NULL, out |-> {}, rows |-> <<>>]

Init ==
    /\ ciphers = {}
    /\ nextCipher = 1
    /\ draft = NoCipher
    /\ users_organizations = {}
    /\ users_collections = {}
    /\ ciphers_collections = {}
    /\ folders_ciphers = {}
    /\ attachments = {}
    /\ events = {}
    /\ nextEvent = 1
    /\ mv = [p \in Procs |-> IdleMove]
    /\ del = IdleDelete
    /\ col = IdleCollect
    /\ resp = NoResp

\* No request is in flight: requests are served one after the other.
Idle ==
    /\ draft = NoCipher
    /\ \A p \in Procs : mv[p].pc = "idle"
    /\ del.pc = "idle"
    /\ col.pc = "idle"
    /\ resp.op = "none"

\* --------------------------------------------------------- cipher lifecycle
\* A caller constructs a cipher: Cipher::new.
NewCipher ==
    /\ Idle
    /\ nextCipher <= MaxCiphers
    /\ draft' = Cipher_new(nextCipher)
    /\ nextCipher' = nextCipher + 1
    /\ UNCHANGED <<ciphers, accessVars, linkVars, eventVars, procVars>>

\* The caller assigns the public owner fields of the value it holds.
SetDraftOwner(u, o) ==
    /\ draft # NoCipher
    /\ <<draft.user_uuid, draft.organization_uuid>> # <<u, o>>
    /\ draft' = [draft EXCEPT !.user_uuid = u, !.organization_uuid = o]
    /\ UNCHANGED <<ciphers, nextCipher, accessVars, linkVars, eventVars, procVars>>

\* Cipher::save: replace_into; false (and no row written) when the store fails.
SaveDraft ==
    /\ draft # NoCipher
    /\ \E ok \in BOOLEAN :
        ciphers' = IF ok THEN CipherReplaceInto(ciphers, draft) ELSE ciphers
    /\ draft' = NoCipher
    /\ UNCHANGED <<nextCipher, accessVars, linkVars, eventVars, procVars>>

\* ------------------------------------------------- rows of the other tables
\* A membership row is written; (user_uuid, org_uuid) is unique.
AddMembership(u, o, aa, t) ==
    /\ Idle
    /\ Cardinality(users_organizations) < MaxMemberships
    /\ ~ \E uo \in users_organizations : uo.user_uuid = u /\ uo.org_uuid = o
    /\ users_organizations' = users_organizations \cup
           { [user_uuid |-> u, org_uuid |-> o, access_all |-> aa, type_ |-> t] }
    /\ UNCHANGED <<cipherVars, users_collections, linkVars, eventVars, procVars>>

\* A collection assignment row is written.
AddAssignment(u, k) ==
    /\ Idle
    /\ Cardinality(users_collections) < MaxAssignments
    /\ users_collections' = users_collections \cup
           { [user_uuid |-> u, collection_uuid |-> k] }
    /\ users_collections' # users_collections
    /\ UNCHANGED <<cipherVars, users_organizations, linkVars, eventVars, procVars>>

\* A stored organization cipher is linked to a collection.
LinkCollection(c, k) ==
    /\ Idle
    /\ Cardinality(ciphers_collections) < MaxLinks
    /\ \E r \in ciphers : r.uuid = c /\ r.organization_uuid # NULL
    /\ ciphers_collections' = ciphers_collections \cup
           { [cipher_uuid |-> c, collection_uuid |-> k] }
    /\ ciphers_collections' # ciphers_collections
    /\ UNCHANGED <<cipherVars, accessVars, folders_ciphers, attachments,
                   eventVars, procVars>>

\* ------------------------------------------------------------------ queries
QueryFindByUser(u) ==
    /\ Idle
    /\ resp' = [op |-> "find_by_user", user |-> u, cipher |-> NULL,
                out |-> find_by_user(u), rows |-> find_by_user_vec(u)]
    /\ UNCHANGED <<cipherVars, accessVars, linkVars, eventVars, mv, del, col>>

QueryWriteAccess(u, c) ==
    /\ Idle
    /\ c \in ciphers
    /\ resp' = [op |-> "is_write_accessible_to_user", user |-> u, cipher |-> c.uuid,
                out |-> is_write_accessible_to_user(c, u), rows |-> <<>>]
    /\ UNCHANGED <<cipherVars, accessVars, linkVars, eventVars, mv, del, col>>

\* out tells whether the load succeeded.
QueryGetCollections(u, c) ==
    /\ Idle
    /\ c \in ciphers
    /\ \E ok \in BOOLEAN :
        resp' = [op |-> "get_collections", user |-> u, cipher |-> c.uuid,
                 out |-> ok, rows |-> get_collections(c, u, ok)]
    /\ UNCHANGED <<cipherVars, accessVars, linkVars, eventVars, mv, del, col>>

\* The caller has consumed the answer.
ClearResp ==
    /\ resp.op # "none"
    /\ resp' = NoResp
    /\ UNCHANGED <<cipherVars, accessVars, linkVars, eventVars, mv, del, col>>

\* ------------------------------------------------- access specification
NextAccess ==
    \/ NewCipher
    \/ \E u \in Users \cup {NULL}, o \in Orgs \cup {NULL} : SetDraftOwner(u, o)
    \/ SaveDraft
    \/ \E u \in Users, o \in Orgs, aa \in {0, 1}, t \in UserOrgTypes :
           AddMembership(u, o, aa, t)
    \/ \E u \in Users, k \in CollectionIds : AddAssignment(u, k)
    \/ \E c \in { r.uuid : r \in ciphers }, k \in CollectionIds : LinkCollection(c, k)
    \/ \E u \in Users : QueryFindByUser(u)
    \/ \E u \in Users, c \in ciphers : QueryWriteAccess(u, c)
    \/ \E u \in Users, c \in ciphers : QueryGetCollections(u, c)
    \/ ClearResp

SpecAccess == Init /\ [][NextAccess]_vars

\* --------------------------------------------------------- folder assignment
\* The folders_ciphers rows get_folder_uuid's query matches: folders_ciphers
\* INNER JOIN folders, filtered on the folder's user and on the cipher.
GetFolderRows(cipher_uuid, user_uuid) ==
    { fc.folder_uuid : fc \in
        { x \in folders_ciphers :
            /\ x.cipher_uuid = cipher_uuid
            /\ \E f \in FolderTable : f.uuid = x.folder_uuid /\ f.user_uuid = user_uuid } }

\* Cipher::get_folder_uuid: .first() of the matches; which one is the store's
\* choice when there are several (the query has no ORDER BY).  NULL for None.
get_folder_uuid(cipher_uuid, user_uuid) ==
    IF GetFolderRows(cipher_uuid, user_uuid) = {}
    THEN {NULL}
    ELSE GetFolderRows(cipher_uuid, user_uuid)

\* FolderCipher::find_by_folder_and_cipher(..).is_some()
find_by_folder_and_cipher(folder_uuid, cipher_uuid) ==
    [folder_uuid |-> folder_uuid, cipher_uuid |-> cipher_uuid] \in folders_ciphers

\* move_to_folder after the get_folder_uuid read: where the match sends the call.
\* <<next pc, result>>
MoveAfterGet(cur, target) ==
    IF cur = NULL
    THEN IF target # NULL THEN <<"save", NULL>> ELSE <<"done", "Ok">>
    ELSE IF target # NULL /\ cur = target THEN <<"done", "Ok">> ELSE <<"find", NULL>>

\* Faulty variant: a missing row is passed over when the target is none, too.
MoveAfterFindLenient(found, target) ==
    IF found THEN <<"delete", NULL>>
    ELSE IF target # NULL THEN <<"save", NULL>> ELSE <<"done", "Ok">>

\* Faulty variant: a missing row ends the call with the error whatever the target.
MoveAfterFindStrict(found, target) ==
    IF found THEN <<"delete", NULL>>
    ELSE <<"done", "Couldn't move from previous folder">>

\* move_to_folder after find_by_folder_and_cipher.
MoveAfterFind(found, target) ==
    IF found THEN <<"delete", NULL>>
    ELSE IF target # NULL
         THEN <<"save", NULL>>                                  \* Weird, but nothing to do
         ELSE <<"done", "Couldn't move from previous folder">>

\* move_to_folder after current_folder.delete(): and_then the save, or the end.
MoveAfterDelete(ok, target) ==
    IF ~ok THEN <<"done", "Failed removing old folder mapping">>
    ELSE IF target # NULL THEN <<"save", NULL>> ELSE <<"done", "Ok">>

StartMove(p, c, u, t) ==
    /\ Idle
    /\ mv' = [mv EXCEPT ![p] = [pc |-> "get", cipher |-> c, user |-> u, target |-> t,
                                cur |-> NULL, res |-> NULL, pre |-> folders_ciphers,
                                found |-> NULL, wrote |-> {}]]
    /\ UNCHANGED <<cipherVars, accessVars, linkVars, eventVars, del, col, resp>>

\* A request that does not wait for the others: its worker starts the call
\* while other calls are in flight.
StartMoveConc(p, c, u, t) ==
    /\ mv[p].pc = "idle"
    /\ draft = NoCipher
    /\ mv' = [mv EXCEPT ![p] = [pc |-> "get", cipher |-> c, user |-> u, target |-> t,
                                cur |-> NULL, res |-> NULL, pre |-> {},
                                found |-> NULL, wrote |-> {}]]
    /\ UNCHANGED <<cipherVars, accessVars, linkVars, eventVars, del, col, resp>>

MoveGet(p) ==
    /\ mv[p].pc = "get"
    /\ \E cur \in get_folder_uuid(mv[p].cipher, mv[p].user) :
        mv' = [mv EXCEPT ![p].cur = cur,
                         ![p].pc = MoveAfterGet(cur, mv[p].target)[1],
                         ![p].res = MoveAfterGet(cur, mv[p].target)[2]]
    /\ UNCHANGED <<cipherVars, accessVars, linkVars, eventVars, del, col, resp>>

MoveFind(p) ==
    /\ mv[p].pc = "find"
    /\ LET some == find_by_folder_and_cipher(mv[p].cur, mv[p].cipher)
           a == MoveAfterFind(some, mv[p].target)
       IN mv' = [mv EXCEPT ![p].pc = a[1], ![p].res = a[2],
                           ![p].found = IF some THEN "some" ELSE "none"]
    /\ UNCHANGED <<cipherVars, accessVars, linkVars, eventVars, del, col, resp>>

\* FolderCipher::delete of the row found; the store may fail.
MoveDelete(p) ==
    /\ mv[p].pc = "delete"
    /\ \E ok \in BOOLEAN :
        /\ folders_ciphers' =
               IF ok
               THEN folders_ciphers \ { [folder_uuid |-> mv[p].cur,
                                         cipher_uuid |-> mv[p].cipher] }
               ELSE folders_ciphers
        /\ mv' = [mv EXCEPT ![p].pc = MoveAfterDelete(ok, mv[p].target)[1],
                            ![p].res = MoveAfterDelete(ok, mv[p].target)[2],
                            ![p].wrote = IF ok THEN @ \cup {<<"delete", mv[p].cur>>}
                                         ELSE @]
    /\ UNCHANGED <<cipherVars, accessVars, ciphers_collections, attachments,
                   eventVars, del, col, resp>>

\* FolderCipher::new(new_folder, cipher).save(); the store may fail.
MoveSave(p) ==
    /\ mv[p].pc = "save"
    /\ \E ok \in BOOLEAN :
        /\ folders_ciphers' =
               IF ok
               THEN folders_ciphers \cup { [folder_uuid |-> mv[p].target,
                                            cipher_uuid |-> mv[p].cipher] }
               ELSE folders_ciphers
        /\ mv' = [mv EXCEPT ![p].pc = "done",
                            ![p].res = IF ok THEN "Ok"
                                       ELSE "Couldn't save folder setting",
                            ![p].wrote = IF ok THEN @ \cup {<<"save", mv[p].target>>}
                                         ELSE @]
    /\ UNCHANGED <<cipherVars, accessVars, ciphers_collections, attachments,
                   eventVars, del, col, resp>>

MoveReturn(p) ==
    /\ mv[p].pc = "done"
    /\ mv' = [mv EXCEPT ![p] = IdleMove]
    /\ UNCHANGED <<cipherVars, accessVars, linkVars, eventVars, del, col, resp>>

\* ------------------------------------------------------------ Cipher::delete
FolderLinksOf(c) == { x \in folders_ciphers : x.cipher_uuid = c }
CollectionLinksOf(c) == { x \in ciphers_collections : x.cipher_uuid = c }
AttachmentsOf(c) == { x \in attachments : x.cipher_uuid = c }

\* An attachment row of a stored cipher is written.
AddAttachment(c) ==
    /\ Idle
    /\ \E r \in ciphers : r.uuid = c
    /\ Cardinality(AttachmentsOf(c)) < MaxAttachments
    /\ attachments' = attachments \cup
           { [id |-> AttachmentNames[Cardinality(AttachmentsOf(c)) + 1],
              cipher_uuid |-> c] }
    /\ UNCHANGED <<cipherVars, accessVars, ciphers_collections, folders_ciphers,
                   eventVars, procVars>>

\* The step after `stage` in Cipher::delete.
DeleteStageAfter(stage) ==
    CASE stage = "folders" -> "collections"
      [] stage = "collections" -> "attachments"
      [] stage = "attachments" -> "row"
      [] OTHER -> "done"

\* Faulty variant: the result of a removal step is ignored (no `?`).
DeleteNextPcIgnoreErr(stage, ok) == DeleteStageAfter(stage)

\* The `?` after each delete_all_by_cipher: an Err returns at once.
DeleteNextPc(stage, ok) == IF ok THEN DeleteStageAfter(stage) ELSE "done"

DeleteResult(stage, ok, res) ==
    IF ~ok THEN "Err" ELSE IF stage = "row" THEN "Ok" ELSE res

StartDelete(c) ==
    /\ Idle
    /\ \E r \in ciphers : r.uuid = c
    /\ del' = [pc |-> "folders", cipher |-> c, res |-> NULL,
               had |-> /\ FolderLinksOf(c) # {}
                       /\ CollectionLinksOf(c) # {}
                       /\ AttachmentsOf(c) # {},
               snap |-> <<{ r \in ciphers : r.uuid = c }, FolderLinksOf(c),
                          CollectionLinksOf(c), AttachmentsOf(c)>>]
    /\ UNCHANGED <<cipherVars, accessVars, linkVars, eventVars, mv, col, resp>>

\* Cipher::delete called by a request that does not wait for the others.
StartDeleteConc(c) ==
    /\ del.pc = "idle"
    /\ draft = NoCipher
    /\ \E r \in ciphers : r.uuid = c
    /\ del' = [pc |-> "folders", cipher |-> c, res |-> NULL, had |-> FALSE,
               snap |-> <<>>]
    /\ UNCHANGED <<cipherVars, accessVars, linkVars, eventVars, mv, col, resp>>

\* FolderCipher::delete_all_by_cipher(&self.uuid)?
DeleteFolders ==
    /\ del.pc = "folders"
    /\ \E ok \in BOOLEAN :
        /\ folders_ciphers' = IF ok THEN folders_ciphers \ FolderLinksOf(del.cipher)
                              ELSE folders_ciphers
        /\ del' = [del EXCEPT !.pc = DeleteNextPc("folders", ok),
                              !.res = DeleteResult("folders", ok, @)]
    /\ UNCHANGED <<cipherVars, accessVars, ciphers_collections, attachments,
                   eventVars, mv, col, resp>>

\* CollectionCipher::delete_all_by_cipher(&self.uuid)?
DeleteCollections ==
    /\ del.pc = "collections"
    /\ \E ok \in BOOLEAN :
        /\ ciphers_collections' =
               IF ok THEN ciphers_collections \ CollectionLinksOf(del.cipher)
               ELSE ciphers_collections
        /\ del' = [del EXCEPT !.pc = DeleteNextPc("collections", ok),
                              !.res = DeleteResult("collections", ok, @)]
    /\ UNCHANGED <<cipherVars, accessVars, folders_ciphers, attachments,
                   eventVars, mv, col, resp>>

\* Attachment::delete_all_by_cipher(&self.uuid)?: on failure some of the
\* cipher's attachments, not all, may already be gone.
DeleteAttachments ==
    /\ del.pc = "attachments"
    /\ \E ok \in BOOLEAN :
        /\ IF ok
           THEN attachments' = attachments \ AttachmentsOf(del.cipher)
           ELSE \E gone \in SUBSET AttachmentsOf(del.cipher) :
                    /\ gone # AttachmentsOf(del.cipher) \/ gone = {}
                    /\ attachments' = attachments \ gone
        /\ del' = [del EXCEPT !.pc = DeleteNextPc("attachments", ok),
                              !.res = DeleteResult("attachments", ok, @)]
    /\ UNCHANGED <<cipherVars, accessVars, ciphers_collections, folders_ciphers,
                   eventVars, mv, col, resp>>

\* diesel::delete(ciphers::table.filter(ciphers::uuid.eq(self.uuid)))
DeleteRow ==
    /\ del.pc = "row"
    /\ \E ok \in BOOLEAN :
        /\ ciphers' = IF ok THEN { r \in ciphers : r.uuid # del.cipher } ELSE ciphers
        /\ del' = [del EXCEPT !.pc = DeleteNextPc("row", ok),
                              !.res = DeleteResult("row", ok, @)]
    /\ UNCHANGED <<nextCipher, draft, accessVars, linkVars, eventVars, mv, col, resp>>

DeleteReturn ==
    /\ del.pc = "done"
    /\ del' = IdleDelete
    /\ UNCHANGED <<cipherVars, accessVars, linkVars, eventVars, mv, col, resp>>

\* ------------------------------------ folder and lifecycle specification
\* Requests are served one at a time.
StoredIds == { r.uuid : r \in ciphers }

Next ==
    \/ NewCipher
    \/ SetDraftOwner("u1", NULL)
    \/ SetDraftOwner(NULL, "o1")
    \/ SaveDraft
    \/ \E c \in StoredIds : LinkCollection(c, "k1")
    \/ \E c \in StoredIds : AddAttachment(c)
    \/ \E c \in StoredIds, u \in Users, t \in FolderIds \cup {NULL} :
           StartMove(1, c, u, t)
    \/ MoveGet(1)
    \/ MoveFind(1)
    \/ MoveDelete(1)
    \/ MoveSave(1)
    \/ MoveReturn(1)
    \/ \E c \in StoredIds : StartDelete(c)
    \/ DeleteFolders
    \/ DeleteCollections
    \/ DeleteAttachments
    \/ DeleteRow
    \/ DeleteReturn

Spec == Init /\ [][Next]_vars

\* ------------------------------------------------ concurrent specification
\* Every request runs on its own worker: the store reads and writes of the
\* calls in flight interleave.  The caller stores ciphers it owns and moves
\* them among its own folders only.
OwnFolders(u) == { f.uuid : f \in { x \in FolderTable : x.user_uuid = u } }

NextConc ==
    \/ NewCipher
    \/ SetDraftOwner("u1", NULL)
    \/ draft.user_uuid = "u1" /\ SaveDraft
    \/ \E p \in Procs, c \in StoredIds, t \in OwnFolders("u1") \cup {NULL} :
           StartMoveConc(p, c, "u1", t)
    \/ \E p \in Procs : MoveGet(p)
    \/ \E p \in Procs : MoveFind(p)
    \/ \E p \in Procs : MoveDelete(p)
    \/ \E p \in Procs : MoveSave(p)
    \/ \E p \in Procs : MoveReturn(p)
    \/ \E c \in StoredIds : StartDeleteConc(c)
    \/ DeleteFolders
    \/ DeleteCollections
    \/ DeleteAttachments
    \/ DeleteRow
    \/ DeleteReturn

SpecConc == Init /\ [][NextConc]_vars

\* ------------------------------------------------------------ folder claims
Link(f, c) == [folder_uuid |-> f, cipher_uuid |-> c]

\* C3: in every state reached by non-interleaved move_to_folder calls (any
\* cipher, any caller, any target folder, also one of another user), every
\* (user, cipher) pair has at most one folder link whose folder is that user's.
C3_AtMostOneFolderLink ==
    \A u \in Users : \A c \in StoredIds : Cardinality(GetFolderRows(c, u)) <= 1

\* C4: Cipher::delete removes the folder links, then the collection links, then
\* the attachments, then the cipher row, so the row goes only when no dependent
\* row of the cipher is left; a failed step ends the call at once with the
\* failure, and the cipher row is still there.
C4_Stages ==
    /\ del.pc \in {"collections", "attachments", "row"}
           => FolderLinksOf(del.cipher) = {}
    /\ del.pc \in {"attachments", "row"} => CollectionLinksOf(del.cipher) = {}
    /\ del.pc = "row" => AttachmentsOf(del.cipher) = {}
    /\ del.res = "Err" => del.pc = "done" /\ del.cipher \in StoredIds
    /\ del.res = "Ok" => del.pc = "done" /\ del.cipher \notin StoredIds

C4_RowStep ==
    \A c \in StoredIds :
        c \notin StoredIds' =>
            /\ del.pc = "row" /\ del.cipher = c
            /\ FolderLinksOf(c) = {} /\ CollectionLinksOf(c) = {} /\ AttachmentsOf(c) = {}

C4_DeleteOrdered == [] C4_Stages /\ [][C4_RowStep]_vars

\* A delete of a cipher that had a folder link, a collection link and an
\* attachment has succeeded.
C4_Witness ==
    /\ del.pc = "done" /\ del.res = "Ok" /\ del.had
    /\ del.cipher \notin StoredIds

\* C5: a move_to_folder(c, u, t) that runs alone and returns success leaves
\* (u, c) in exactly folder t (in none when t is none), and changes the link
\* rows as the transition table says: none->none and F->F nothing, none->F one
\* new link, F->G the link to F replaced by the link to G, F->none the link to F
\* removed.
C5_TransitionTable ==
    \A p \in Procs :
        (mv[p].pc = "done" /\ mv[p].res = "Ok") =>
            LET c == mv[p].cipher
                t == mv[p].target
                F == mv[p].cur
            IN /\ GetFolderRows(c, mv[p].user) = (IF t = NULL THEN {} ELSE {t})
               /\ folders_ciphers =
                      IF F = t THEN mv[p].pre
                      ELSE IF F = NULL THEN mv[p].pre \cup {Link(t, c)}
                      ELSE IF t = NULL THEN mv[p].pre \ {Link(F, c)}
                      ELSE (mv[p].pre \ {Link(F, c)}) \cup {Link(t, c)}

\* ------------------------------------------------------------ event recorder
\* EventType::CipherClientViewed and EventType::CipherUpdated.
CipherClientViewed == 1107
CipherUpdated == 1101

\* The date strings a client sends, and the NaiveDateTime each parses to.
DateStrings == {"2020-01-01T00:00:00.000000Z", "yesterday"}
PANIC == -2
\* util::parse_date returns a NaiveDateTime, not a Result: a string it cannot
\* parse leaves it no value to return, and the request unwinds.
parse_date(s) == IF s = "2020-01-01T00:00:00.000000Z" THEN 1 ELSE PANIC

\* Faulty variant: every event gets the same uuid.
Event_newSameUuid(n, event_type, event_date) ==
    [uuid |-> EventUuid(1), event_type |-> event_type, user_uuid |-> NULL,
     org_uuid |-> NULL, cipher_uuid |-> NULL, act_user_uuid |-> NULL,
     event_date |-> event_date]

\* Event::new(event_type, Some(event_date)): fresh uuid, every reference unset.
Event_new(n, event_type, event_date) ==
    [uuid |-> EventUuid(n), event_type |-> event_type, user_uuid |-> NULL,
     org_uuid |-> NULL, cipher_uuid |-> NULL, act_user_uuid |-> NULL,
     event_date |-> event_date]

\* Faulty variant: the event is attributed to the acting user, not to the cipher's owner.
CipherEventActingUser(n, cipher_uuid, event_type, event_date, user_uuid) ==
    LET cipher == find_by_uuid(cipher_uuid)
    IN [Event_new(n, event_type, event_date) EXCEPT
            !.org_uuid = cipher.organization_uuid,
            !.cipher_uuid = cipher_uuid,
            !.user_uuid = user_uuid,
            !.act_user_uuid = user_uuid]

\* new_cipher_event up to event.save: the event built for cipher id cipher_uuid.
CipherEvent(n, cipher_uuid, event_type, event_date, user_uuid) ==
    LET event == Event_new(n, event_type, event_date)
        cipher == find_by_uuid(cipher_uuid)
    IN IF cipher # NoCipher
       THEN [event EXCEPT !.org_uuid = cipher.organization_uuid,
                          !.cipher_uuid = cipher.uuid,
                          !.user_uuid = cipher.user_uuid,
                          !.act_user_uuid = user_uuid]
       ELSE [event EXCEPT !.cipher_uuid = cipher_uuid,
                          !.act_user_uuid = user_uuid]

\* Faulty variant: a plain INSERT with no primary key.
EventInsert(table, row) == table \cup {row}

\* Event::save: replace_into (sqlite, mysql) or insert .. on_conflict(uuid)
\* do_update (postgresql): the row with this uuid is replaced.
EventReplaceInto(table, row) == { r \in table : r.uuid # row.uuid } \cup {row}

EventUuids == { EventNames[i] : i \in 1..Len(EventNames) }

BatchItems ==
    [Type : {CipherClientViewed}, Date : DateStrings, CipherId : {NULL, CipherUuid(1)}]

\* A POST /collect arrives with a batch of occurrences.
StartCollect(items, user) ==
    /\ Idle
    /\ nextEvent + Len(items) - 1 <= MaxEvents
    /\ col' = [pc |-> "loop", items |-> items, idx |-> 1, user |-> user,
               log |-> <<>>, res |-> NULL, before |-> events]
    /\ UNCHANGED <<cipherVars, accessVars, linkVars, eventVars, mv, del, resp>>

\* One turn of the for loop of post_events_collect.
CollectItem ==
    /\ col.pc = "loop"
    /\ col.idx <= Len(col.items)
    /\ LET d == col.items[col.idx]
       IN IF d.CipherId = NULL
          THEN \* if let Some(cipher_uuid) = &d.CipherId: nothing is done
               /\ col' = [col EXCEPT !.idx = @ + 1, !.log = Append(@, "skipped")]
               /\ UNCHANGED eventVars
          ELSE IF parse_date(d.Date) = PANIC
          THEN /\ col' = [col EXCEPT !.pc = "done", !.res = "Panic",
                                     !.log = Append(@, "panic")]
               /\ UNCHANGED eventVars
          ELSE \E ok \in BOOLEAN :
               LET event == CipherEvent(nextEvent, d.CipherId, d.Type,
                                        parse_date(d.Date), col.user)
               IN /\ nextEvent' = nextEvent + 1
                  /\ IF ok
                     THEN /\ events' = EventReplaceInto(events, event)
                          /\ col' = [col EXCEPT !.idx = @ + 1,
                                                !.log = Append(@, event.uuid)]
                     ELSE \* new_cipher_event(..)?: the Err ends the request
                          /\ events' = events
                          /\ col' = [col EXCEPT !.pc = "done", !.res = "Err",
                                                !.log = Append(@, "failed")]
    /\ UNCHANGED <<cipherVars, accessVars, linkVars, mv, del, resp>>

\* The loop is over: Ok(()).
CollectFinish ==
    /\ col.pc = "loop"
    /\ col.idx > Len(col.items)
    /\ col' = [col EXCEPT !.pc = "done", !.res = "Ok"]
    /\ UNCHANGED <<cipherVars, accessVars, linkVars, eventVars, mv, del, resp>>

CollectReturn ==
    /\ col.pc = "done"
    /\ col' = IdleCollect
    /\ UNCHANGED <<cipherVars, accessVars, linkVars, eventVars, mv, del, resp>>

\* A caller that holds a stored Event changes its type and saves it again.
EventResave(r, t) ==
    /\ Idle
    /\ r \in events
    /\ r.event_type # t
    /\ \E ok \in BOOLEAN :
        LET e == [r EXCEPT !.event_type = t]
        IN /\ events' = IF ok THEN EventReplaceInto(events, e) ELSE events
           /\ resp' = [op |-> "event_save", user |-> NULL, cipher |-> NULL,
                       out |-> [event |-> e, ok |-> ok,
                                before |-> Cardinality(events)],
                       rows |-> <<>>]
    /\ UNCHANGED <<cipherVars, accessVars, linkVars, nextEvent, mv, del, col>>

Batches == UNION { [1..n -> BatchItems] : n \in 1..MaxBatch }

NextEvent ==
    \/ NewCipher
    \/ SetDraftOwner("u1", NULL)
    \/ SetDraftOwner(NULL, "o1")
    \/ SaveDraft
    \/ \E c \in StoredIds : StartDelete(c)
    \/ DeleteFolders
    \/ DeleteCollections
    \/ DeleteAttachments
    \/ DeleteRow
    \/ DeleteReturn
    \/ \E items \in Batches : StartCollect(items, "u1")
    \/ CollectItem
    \/ CollectFinish
    \/ CollectReturn
    \/ \E r \in events, t \in {CipherClientViewed, CipherUpdated} : EventResave(r, t)
    \/ ClearResp

SpecEvent == Init /\ [][NextEvent]_vars

\* ------------------------------------------------------------- event claims
\* The stored rows with the uuid the log names for item i.
EventsOfItem(i) == { e \in events : e.uuid = col.log[i] }

\* C6: every item of a collect batch that carries no cipher id gets one event
\* persisted, with the caller's type and date and no cipher, organization or
\* user context; such items are recorded, not skipped.
C6_NoCipherItemRecorded ==
    (col.pc = "done" /\ col.res = "Ok") =>
        \A i \in 1..Len(col.items) :
            col.items[i].CipherId = NULL =>
                \E e \in EventsOfItem(i) :
                    /\ e.event_type = col.items[i].Type
                    /\ e.event_date = parse_date(col.items[i].Date)
                    /\ e.cipher_uuid = NULL /\ e.org_uuid = NULL /\ e.user_uuid = NULL

\* Item i is one new_cipher_event can record: a cipher id and a date that parses.
Recordable(i) ==
    /\ col.items[i].CipherId # NULL
    /\ parse_date(col.items[i].Date) # PANIC

\* C7: one failing item does not keep the rest of the batch from being
\* processed and persisted: when only the second item of a batch of three
\* fails, the events of items 1 and 3 are in the store when the request ends.
C7_FailureDoesNotStopBatch ==
    ( /\ col.pc = "done"
      /\ Len(col.items) = 3
      /\ Recordable(1) /\ Recordable(3)
      /\ Len(col.log) >= 2
      /\ col.log[1] \in EventUuids
      /\ col.log[2] \in {"panic", "failed"} )
    => /\ EventsOfItem(1) # {}
       /\ Len(col.log) = 3
       /\ col.log[3] # "failed" => EventsOfItem(3) # {}

\* C8: an event new_cipher_event has saved for cipher id x carries cipher_uuid
\* x; its org_uuid and user_uuid are those of the cipher row with id x when
\* there is one at lookup, and unset when there is none.  Each item with a
\* cipher id and a date that parses gets such an event unless the store fails.
C8_CipherEventEnriched ==
    col.pc # "idle" =>
        \A i \in 1..Len(col.log) :
            /\ Recordable(i) => col.log[i] \in EventUuids \cup {"failed"}
            /\ col.log[i] \in EventUuids =>
                /\ Cardinality(EventsOfItem(i)) = 1
                /\ \A e \in EventsOfItem(i) :
                    LET x == col.items[i].CipherId
                        cipher == find_by_uuid(x)
                    IN /\ e.cipher_uuid = x
                       /\ e.event_type = col.items[i].Type
                       /\ e.event_date = parse_date(col.items[i].Date)
                       /\ cipher # NoCipher =>
                            /\ e.org_uuid = cipher.organization_uuid
                            /\ e.user_uuid = cipher.user_uuid
                       /\ cipher = NoCipher =>
                            /\ e.org_uuid = NULL
                            /\ e.user_uuid = NULL

\* One request has recorded an event for a stored organization cipher.
C8_Witness ==
    /\ col.pc = "done" /\ col.res = "Ok"
    /\ \E i \in 1..Len(col.log) :
        /\ col.log[i] \in EventUuids
        /\ find_by_uuid(col.items[i].CipherId).organization_uuid # NULL
        /\ \E e \in EventsOfItem(i) : e.org_uuid # NULL

\* C9: the store holds at most one event row per uuid, and a successful save of
\* an event whose uuid is stored replaces that row: the row count is the same
\* and the row now has the content saved last.
C9_SaveIsUpsert ==
    /\ \A e1, e2 \in events : e1.uuid = e2.uuid => e1 = e2
    /\ (resp.op = "event_save" /\ resp.out.ok) =>
           /\ resp.out.event \in events
           /\ Cardinality(events) = resp.out.before

\* A stored event was saved again with another type.
C9_Witness ==
    /\ resp.op = "event_save" /\ resp.out.ok
    /\ resp.out.event \in events
    /\ resp.out.event.event_type = CipherUpdated

\* ------------------------------------------------------------ access claims
ExactlyOneOwner(c) == (c.user_uuid # NULL) # (c.organization_uuid # NULL)

MembershipsOf(u, o) ==
    { uo \in users_organizations : uo.user_uuid = u /\ uo.org_uuid = o }

\* u holds a CollectionAssignment to a collection that cipher c is linked to.
AssignedThroughCollection(u, c) ==
    \E cc \in ciphers_collections : \E uc \in users_collections :
        /\ cc.cipher_uuid = c.uuid
        /\ uc.collection_uuid = cc.collection_uuid
        /\ uc.user_uuid = u

\* C1: for an organization-owned cipher c, is_write_accessible_to_user(u, c) is
\* true when u has a membership in c's organization with access_all or with
\* role Owner or Admin, and false for a member with neither, also when that
\* member is assigned to a collection containing c.
C1_OrgWriteAccess ==
    resp.op = "is_write_accessible_to_user" =>
        LET c == find_by_uuid(resp.cipher)
        IN (c.user_uuid = NULL /\ c.organization_uuid # NULL) =>
            \A uo \in MembershipsOf(resp.user, c.organization_uuid) :
                resp.out = (uo.access_all = 1 \/ uo.type_ <= AdminType)

\* C1 as amended: for an organization-owned cipher c,
\* is_write_accessible_to_user(u, c) is true exactly when u has a membership in
\* c's organization with access_all; it is false for a member without
\* access_all whatever the role (Owner and Admin too) and whatever collection
\* assignments the member has, and false for a user with no membership.
C1_WriteAccessIsBlanketAccess ==
    resp.op = "is_write_accessible_to_user" =>
        LET c == find_by_uuid(resp.cipher)
        IN (c.user_uuid = NULL /\ c.organization_uuid # NULL) =>
            /\ \A uo \in MembershipsOf(resp.user, c.organization_uuid) :
                   resp.out = (uo.access_all = 1)
            /\ MembershipsOf(resp.user, c.organization_uuid) = {} => resp.out = FALSE

\* An Admin without access_all, assigned to a collection that holds the
\* organization cipher, was refused write access.
C1_Witness ==
    /\ resp.op = "is_write_accessible_to_user"
    /\ resp.out = FALSE
    /\ LET c == find_by_uuid(resp.cipher)
       IN /\ c.user_uuid = NULL /\ c.organization_uuid # NULL
          /\ AssignedThroughCollection(resp.user, c)
          /\ \E uo \in MembershipsOf(resp.user, c.organization_uuid) :
                 uo.access_all = 0 /\ uo.type_ = AdminType

\* C2: find_by_user(u) returns cipher c exactly when c.user_uuid = u, or u has
\* a membership in c's organization and (it has access_all, or its role is Owner
\* or Admin, or u is assigned to a collection c is linked to); a user with an
\* assignment but no membership in the cipher's organization does not see it.
\* (Stated for the stored ciphers that have exactly one owner.)
C2_FindByUserExact ==
    resp.op = "find_by_user" =>
        \A c \in { r \in ciphers : ExactlyOneOwner(r) } :
            c \in resp.out <=>
                \/ c.user_uuid = resp.user
                \/ \E uo \in MembershipsOf(resp.user, c.organization_uuid) :
                       \/ uo.access_all = 1
                       \/ uo.type_ <= AdminType
                       \/ AssignedThroughCollection(resp.user, c)

\* C10: every cipher value the constructor produces and every stored cipher
\* row has exactly one of user_uuid and organization_uuid set.
C10_ExactlyOneOwner ==
    /\ draft # NoCipher => ExactlyOneOwner(draft)
    /\ \A r \in ciphers : ExactlyOneOwner(r)

\* C11: for a cipher with user_uuid set, is_write_accessible_to_user(u, c) is
\* true exactly when c.user_uuid = u, whatever memberships and collection
\* assignments u has.
C11_PersonalWriteAccess ==
    resp.op = "is_write_accessible_to_user" =>
        LET c == find_by_uuid(resp.cipher)
        IN c.user_uuid # NULL => resp.out = (c.user_uuid = resp.user)

\* A user with access_all in the organization named on another user's cipher
\* was refused write access to it.
C11_Witness ==
    /\ resp.op = "is_write_accessible_to_user"
    /\ resp.out = FALSE
    /\ LET c == find_by_uuid(resp.cipher)
       IN /\ c.user_uuid # NULL /\ c.user_uuid # resp.user
          /\ \E uo \in MembershipsOf(resp.user, c.organization_uuid) :
                 uo.access_all = 1

\* C12: the result of find_by_user(u) holds no cipher id twice, also when a
\* cipher is linked to several collections u is assigned to, or is reachable
\* through ownership or blanket access and through an assignment as well.
C12_NoDuplicateCipher ==
    resp.op = "find_by_user" =>
        /\ \A c \in DOMAIN resp.rows : resp.rows[c] = 1
        /\ \A c1, c2 \in DOMAIN resp.rows : c1.uuid = c2.uuid => c1 = c2

\* A cipher that two joined rows made visible to the user is in the result.
C12_Witness ==
    /\ resp.op = "find_by_user"
    /\ \E c \in DOMAIN resp.rows :
        /\ FindByUserSelect(resp.user)[c] >= 2
        /\ Cardinality({ cc \in ciphers_collections : \E uc \in users_collections :
                            /\ cc.cipher_uuid = c.uuid
                            /\ uc.collection_uuid = cc.collection_uuid
                            /\ uc.user_uuid = resp.user }) >= 2

\* C13: get_collections(u, c) returns exactly the collections k that c is linked
\* to, that belong to c's own organization, and for which u has a Membership in
\* that organization together with an assignment to k, blanket access or the
\* Owner or Admin role; without such a Membership the result is empty.
C13_GetCollectionsExact ==
    (resp.op = "get_collections" /\ resp.out) =>
        LET c == find_by_uuid(resp.cipher)
            u == resp.user
        IN DOMAIN resp.rows =
            { k \in CollectionIds :
                /\ [cipher_uuid |-> c.uuid, collection_uuid |-> k] \in ciphers_collections
                /\ \E x \in CollectionTable :
                       x.uuid = k /\ x.org_uuid = c.organization_uuid
                /\ \E uo \in MembershipsOf(u, c.organization_uuid) :
                       \/ [user_uuid |-> u, collection_uuid |-> k] \in users_collections
                       \/ uo.access_all = 1
                       \/ uo.type_ <= AdminType }

\* ------------------------------------------- folder claims, calls interleaved
\* A call that moves from one folder to another one.
Swaps(p) == mv[p].cur # NULL /\ mv[p].target # NULL /\ mv[p].cur # mv[p].target

\* C14: move_to_folder(c, u, none) whose current-folder read gave F and whose
\* lookup of the link row (F, c) then finds nothing ends with the error
\* "Couldn't move from previous folder", and has created and removed no link row.
C14_MissingRowIsError ==
    \A p \in Procs :
        (mv[p].target = NULL /\ mv[p].found = "none") =>
            /\ mv[p].pc = "done"
            /\ mv[p].res = "Couldn't move from previous folder"
            /\ mv[p].wrote = {}

\* Another request removed the row between the two reads of the call.
C14_Witness ==
    \E p \in Procs :
        /\ mv[p].target = NULL /\ mv[p].cur # NULL /\ mv[p].found = "none"
        /\ mv[p].res = "Couldn't move from previous folder"
        /\ Link(mv[p].cur, mv[p].cipher) \notin folders_ciphers

C16_AtMostOneLinkInterleaved ==
    \A u \in Users : \A x \in folders_ciphers :
        Cardinality(GetFolderRows(x.cipher_uuid, u)) <= 1

\* C17: a move from F to another folder G never leaves (u, c) without a
\* folder: not between the removal of (F, c) and the creation of (G, c), and
\* not when the creation fails after the removal, where the call returns the
\* error with (u, c) still in F.
C17_NeverInNeitherFolder ==
    \A p \in Procs :
        (Swaps(p) /\ <<"delete", mv[p].cur>> \in mv[p].wrote) =>
            /\ mv[p].pc = "save" => GetFolderRows(mv[p].cipher, mv[p].user) # {}
            /\ (mv[p].pc = "done" /\ mv[p].res # "Ok") =>
                   GetFolderRows(mv[p].cipher, mv[p].user) = {mv[p].cur}

\* C18: when Cipher::delete returns a failure the cipher row and its folder
\* links, collection links and attachments are those of before the call.
C18_FailedDeleteChangesNothing ==
    (del.pc = "done" /\ del.res = "Err") =>
        del.snap = <<{ r \in ciphers : r.uuid = del.cipher }, FolderLinksOf(del.cipher),
                     CollectionLinksOf(del.cipher), AttachmentsOf(del.cipher)>>

\* C20: when Cipher::delete(c) interleaves with move_to_folder calls on c, the
\* step that removes the cipher row leaves no folder link that references c.
C20_RowStepLeavesNoLink ==
    \A c \in StoredIds : c \notin StoredIds' => FolderLinksOf(c)' = {}

C20_NoDanglingFolderLink == [][C20_RowStepLeavesNoLink]_vars

\* ------------------------------------------------- event recorder, frame
\* The items of the batch in flight that carry a cipher id.
ItemsWithCipher == { i \in 1..Len(col.items) : col.items[i].CipherId # NULL }

\* C19: recording events changes and removes no stored event: every event row
\* of before the request is still there, unchanged, while the request runs,
\* and a batch that ends without a store failure has added exactly one row
\* for each of its items that carry a cipher id.
C19_RecordingOnlyAdds ==
    col.pc # "idle" =>
        /\ col.before \subseteq events
        /\ (col.pc = "done" /\ col.res = "Ok") =>
               Cardinality(events) = Cardinality(col.before) + Cardinality(ItemsWithCipher)

\* A batch with two items that carry a cipher id has been recorded on top of
\* events stored before.
C19_Witness ==
    /\ col.pc = "done" /\ col.res = "Ok"
    /\ col.before # {}
    /\ Cardinality(ItemsWithCipher) >= 2
    /\ Cardinality(events \ col.before) >= 2

\* C21: get_collections(u, c) returns each collection id at most once, also
\* when u qualifies through blanket access or the Owner or Admin role and
\* several users hold an assignment to a collection c is linked to.
C21_NoDuplicateCollection ==
    resp.op = "get_collections" =>
        \A id \in DOMAIN resp.rows : resp.rows[id] = 1

====
